---- MODULE Spec2Model ----
(***************************************************************************)
(* Model of the reel generator's timeline engine.                          *)
(*                                                                         *)
(* Spec        : one generation run (main.py generate / generate_video_    *)
(*               phase): detect cut points, decimate them, plan and        *)
(*               extract the segments (processors/video_cutter.py), merge, *)
(*               report.                                                   *)
(* SpecOverlay : one image-overlay run (processors/image_overlay.py):      *)
(*               schedule the display windows, build the position curves.  *)
(* SpecInputs  : one image-overlay request from its entry point (main.py   *)
(*               overlay_images, or overlay_images_on_video called         *)
(*               directly): validation, preview, process().                *)
(* SpecText    : one text-overlay run (processors/text_overlay.py): font   *)
(*               size and background box of a caption.                     *)
(* SpecAnalyze : one call of analyze_audio (processors/audio_analyzer.py): *)
(*               the mode dispatch, the two analyses, the hybrid merge.    *)
(*               Times are integers in ticks of 0.05 s.                    *)
(* SpecRuns    : two generation runs of one project executing at the same  *)
(*               time: the temporary files of processors/video_cutter.py.  *)
(*                                                                         *)
(* Times of the generation run are integers in ticks of 0.15 s.  Times of  *)
(* the overlay run are exact rationals: numerators over a denominator that *)
(* the schedule carries (the code computes them in floating point).        *)
(***************************************************************************)
EXTENDS Integers, Sequences, FiniteSets, TLC

VARIABLES
    \* ---- generation run
    pc,                  \* position of the run
    entry,               \* "interactive" (standard_workflow) or "generate" (CLI)
    interval,            \* cut every N points
    order,               \* "sequential" or "random"
    audio_duration,      \* target duration (audio_end - audio_start)
    video_duration,      \* duration of the source / host video
    cut_points,          \* detector output
    filtered_points,     \* cut_points[::interval]
    probe_ok,            \* ffmpeg.probe of the source video succeeded
    segment_durations,   \* planned durations
    seg_i,               \* loop index i of enumerate(segment_durations)
    current_video_time,  \* the cursor
    planned,             \* (start, duration) handed to extract_segment, in order
    segments,            \* indices of the segments whose extraction succeeded
    final_video,         \* result of merge_with_audio
    reported,            \* what the caller printed: "none", "success", "failure"
    exit_code,           \* process exit status set by the caller
    \* ---- overlay run
    ov_pc,               \* position of the overlay run
    num_images,
    duration_per_image,  \* <<>> for None, or <<d>> for the explicit duration d
    delay_between_images,
    timing_info,         \* <<>> for None, or <<t>> for the dict t of _calculate_timing
    animation_style,     \* the requested style, "random" included
    animation_duration,  \* configured animation duration, seconds
    video_width,         \* frame of the host video
    video_height,
    ov_i,                \* loop index i of the overlay chain
    curve,               \* <<>>, or <<c>>: the arguments of the expressions built last
    overlay_result,      \* what process() returned
    \* ---- text overlay run
    tx_pc,               \* position of the text overlay run
    tx_entry,            \* "process" or "preview" (preview_settings)
    char_count,          \* len(text)
    tx_video_width,      \* frame width of the host video
    tx_config,           \* config.TEXT_OVERLAY_MIN_FONT_SIZE, _MAX_FONT_SIZE, _PADDING
    font_size,
    box_width,
    box_height,
    text_result,         \* what process() / preview_settings() returned
    \* ---- two concurrent generation runs in one project (one config.TEMP_DIR)
    run_pc,              \* position of each run
    run_n,               \* number of planned segments of each run
    run_i,               \* loop index i of each run
    run_segment_paths,   \* per run: indices i of the segment files it extracted
    segment_files,       \* temp/segment_{i:04d}.mp4: <<>> or <<content>>
    concat_file,         \* temp/segments_concat.txt: <<>> or <<content>>
    temp_video,          \* temp/temp_concat.mp4: <<>> or <<content>>
    output_file,         \* per run: its output file, <<>> or <<content>>
    \* ---- one call of analyze_audio
    an_pc,               \* position of the call
    mode,                \* 'beats', 'vocals', 'hybrid' or another string
    audio_exists,        \* os.path.exists(audio_path)
    weights,             \* <<beat_weight, vocal_weight>>, in tenths
    beat_failed,         \* the beat analysis raised
    vocal_failed,        \* the vocal analysis raised
    beat_times,          \* what analyze_beats returned
    vocal_times,         \* what analyze_vocal_changes returned
    an_result,           \* what analyze_audio returned
    \* ---- one image-overlay request, from its entry point
    ov_entry,            \* "cli" (main.py overlay_images) or "api" (overlay_images_on_video)
    video_exists,        \* the background video exists and is readable
    folder_exists,       \* the images folder exists
    scheduled,           \* the arguments of every call of _calculate_timing, in order
    encoder_invoked,     \* _execute_ffmpeg has been called
    ov_exit              \* exit status of the CLI command: <<>> while running

genVars == <<pc, entry, interval, order, audio_duration, cut_points,
             filtered_points, probe_ok, segment_durations, seg_i,
             current_video_time, planned, segments, final_video, reported,
             exit_code>>
ovVars == <<ov_pc, num_images, duration_per_image, delay_between_images,
            timing_info, animation_style, animation_duration, video_width,
            video_height, ov_i, curve, overlay_result>>
txVars == <<tx_pc, tx_entry, char_count, tx_video_width, tx_config, font_size,
            box_width, box_height, text_result>>
runVars == <<run_pc, run_n, run_i, run_segment_paths, segment_files, concat_file,
             temp_video, output_file>>
anVars == <<an_pc, mode, audio_exists, weights, beat_failed, vocal_failed,
            beat_times, vocal_times, an_result>>
inVars == <<ov_entry, video_exists, folder_exists, scheduled, encoder_invoked,
            ov_exit>>
auxVars == <<txVars, runVars, anVars, inVars>>
\* everything but the variables of the text overlay run
nonTxVars == <<genVars, ovVars, video_duration, runVars, anVars, inVars>>
\* everything but the variables of the concurrent runs
nonRunVars == <<genVars, ovVars, video_duration, txVars, anVars, inVars>>
\* everything but the variables of the analyze_audio call
nonAnVars == <<genVars, ovVars, video_duration, txVars, runVars, inVars>>
vars == <<genVars, ovVars, auxVars, video_duration>>

None == "None"

\* ---------------------------------------------------------------- bounds
\* largest cut-point time, in ticks
MaxTime == 6
\* most cut points the detector returns
MaxPoints == 3
\* largest decimation interval
MaxInterval == 2
\* largest source-video duration, in ticks
MaxVideo == 6
\* largest target duration, in ticks
MaxTarget == 6

\* most overlay images
MaxImages == 3
\* largest host-video duration, in seconds
MaxHost == 5
\* largest explicit per-image duration, in seconds
MaxPerImage == 3
\* largest delay between images, in seconds
MaxDelay == 1
\* largest configured animation duration, in seconds
MaxAnimation == 1

\* config.MIN_SEGMENT_DURATION = 0.3 s = 2 ticks of 0.15 s
MIN_SEGMENT_DURATION == 2
\* "Ensure minimum duration": 1.0 s
MIN_AUTO_DURATION == 1
\* "Calculate max allowed dimensions (85% of frame)", in percent
IMAGE_MAX_SIZE_PERCENT == 85
\* the off-screen margin, in pixels
OFF_SCREEN_MARGIN == 100

\* ---------------------------------------------------------------- helpers
Min(a, b) == IF a < b THEN a ELSE b
Max(a, b) == IF a > b THEN a ELSE b

RECURSIVE SumSeq(_)
SumSeq(s) == IF s = <<>> THEN 0 ELSE Head(s) + SumSeq(Tail(s))

RECURSIVE SortedSeq(_)
\* the ascending sequence of a finite set of numbers
SortedSeq(S) ==
    IF S = {} THEN <<>>
    ELSE LET m == CHOOSE x \in S : \A y \in S : x <= y
         IN <<m>> \o SortedSeq(S \ {m})

\* what a detector can return: ascending timestamps
DetectorOutputs ==
    { SortedSeq(S) : S \in { T \in SUBSET (0..MaxTime) : Cardinality(T) <= MaxPoints } }

\* ---------------------------------------------------------------- decimation
RECURSIVE StrideFrom(_, _, _)
\* Python's points[k::step] with 1-based k
StrideFrom(points, step, k) ==
    IF k > Len(points) THEN <<>>
    ELSE <<points[k]>> \o StrideFrom(points, step, k + step)

\* a slip: the stride starts at the step-th point instead of the first
DecimateFromStep(points, step) == StrideFrom(points, step, step)

\* cut_points[::interval]
Decimate(points, step) == StrideFrom(points, step, 1)

\* ---------------------------------------------------------------- planner
\* a slip: every positive delta kept
KeepDeltaPositive(d) == d > 0

\* the filter on a delta or on the shortfall
KeepDelta(d) == d > MIN_SEGMENT_DURATION

RECURSIVE Candidates(_)
\* the kept consecutive deltas of the timestamps, in order
Candidates(timestamps) ==
    IF Len(timestamps) < 2 THEN <<>>
    ELSE LET d == timestamps[2] - timestamps[1]
         IN (IF KeepDelta(d) THEN <<d>> ELSE <<>>) \o Candidates(Tail(timestamps))

\* a slip: the fallback ignores the source's length
FallbackTargetOnly(target, source) == <<target>>

\* "No valid segments, use entire video"
Fallback(target, source) == <<Min(target, source)>>

\* a slip: the shortfall is appended however short it is
WithFillerAnyShortfall(durs, target) ==
    IF SumSeq(durs) < target THEN Append(durs, target - SumSeq(durs)) ELSE durs

\* "If not enough segments, add remaining time"
WithFiller(durs, target) ==
    LET total == SumSeq(durs)
        remaining == target - total
    IN IF total < target /\ KeepDelta(remaining) THEN Append(durs, remaining)
       ELSE durs

\* the planned durations
PlanDurations(timestamps, target, source) ==
    LET cands == Candidates(timestamps)
    IN IF cands # <<>> THEN WithFiller(cands, target)
       ELSE Fallback(target, source)

\* a slip: an excerpt that ends exactly at the source's end loops back too
LoopBackAtEnd(cursor, seg_duration, source) ==
    IF cursor + seg_duration >= source THEN 0 ELSE cursor

\* a slip: loop back only once the cursor itself has passed the end
LoopBackCursorOnly(cursor, seg_duration, source) ==
    IF cursor >= source THEN 0 ELSE cursor

\* "Ensure we don't exceed video duration ... Loop back to start"
LoopBack(cursor, seg_duration, source) ==
    IF cursor + seg_duration > source THEN 0 ELSE cursor

\* a slip: the empty list is not rejected
MergeNoEmptyCheck(segment_paths, encoder_ok) ==
    IF encoder_ok THEN "output" ELSE None

\* merge_segments_with_audio: None for no segments or a failed encode
MergeResult(segment_paths, encoder_ok) ==
    IF segment_paths = <<>> THEN None
    ELSE IF encoder_ok THEN "output" ELSE None

\* ---------------------------------------------------------------- overlay idle
OverlayIdle ==
    /\ ov_pc = "idle"
    /\ num_images = 0
    /\ duration_per_image = <<>>
    /\ delay_between_images = 0
    /\ timing_info = <<>>
    /\ animation_style = "fade"
    /\ animation_duration = 0
    /\ video_width = 0
    /\ video_height = 0
    /\ ov_i = 0
    /\ curve = <<>>
    /\ overlay_result = None

\* ---------------------------------------------------------------- other runs idle
TextIdle ==
    /\ tx_pc = "idle"
    /\ tx_entry = "process"
    /\ char_count = 0
    /\ tx_video_width = 0
    /\ tx_config = [min_font |-> 0, max_font |-> 0, padding |-> 0]
    /\ font_size = 0
    /\ box_width = 0
    /\ box_height = 0
    /\ text_result = None

\* the two runs
Runs == {1, 2}

\* most segments a concurrent run plans
MaxRunSegments == 2

RunsIdle ==
    /\ run_pc = [r \in Runs |-> "idle"]
    /\ run_n = [r \in Runs |-> 0]
    /\ run_i = [r \in Runs |-> 0]
    /\ run_segment_paths = [r \in Runs |-> <<>>]
    /\ segment_files = [i \in 0..(MaxRunSegments - 1) |-> <<>>]
    /\ concat_file = <<>>
    /\ temp_video = <<>>
    /\ output_file = [r \in Runs |-> <<>>]

AnalyzerIdle ==
    /\ an_pc = "idle"
    /\ mode = "beats"
    /\ audio_exists = TRUE
    /\ weights = <<7, 3>>
    /\ beat_failed = FALSE
    /\ vocal_failed = FALSE
    /\ beat_times = <<>>
    /\ vocal_times = <<>>
    /\ an_result = <<>>

InputsIdle ==
    /\ ov_entry = "api"
    /\ video_exists = TRUE
    /\ folder_exists = TRUE
    /\ scheduled = <<>>
    /\ encoder_invoked = FALSE
    /\ ov_exit = <<>>

AuxIdle == TextIdle /\ RunsIdle /\ AnalyzerIdle /\ InputsIdle

\* ---------------------------------------------------------------- generation run
Init ==
    /\ pc = "analyze"
    /\ entry \in {"interactive", "generate"}
    /\ interval \in 1..MaxInterval
    /\ order \in {"sequential", "random"}
    /\ audio_duration \in 1..MaxTarget
    /\ video_duration \in 1..MaxVideo
    /\ cut_points = <<>>
    /\ filtered_points = <<>>
    /\ probe_ok = TRUE
    /\ segment_durations = <<>>
    /\ seg_i = 0
    /\ current_video_time = 0
    /\ planned = <<>>
    /\ segments = <<>>
    /\ final_video = None
    /\ reported = "none"
    /\ exit_code = 0
    /\ OverlayIdle
    /\ AuxIdle

\* detect_beats / detect_vocal_changes: a list of timestamps, [] on failure
Analyze ==
    /\ pc = "analyze"
    /\ \E pts \in DetectorOutputs : cut_points' = pts
    /\ pc' = "filter"
    /\ UNCHANGED <<entry, interval, order, audio_duration, video_duration,
                   filtered_points, probe_ok, segment_durations, seg_i,
                   current_video_time, planned, segments, final_video,
                   reported, exit_code, ovVars, auxVars>>

\* filtered_points = cut_points[::interval]
FilterByInterval ==
    /\ pc = "filter"
    /\ filtered_points' = Decimate(cut_points, interval)
    /\ pc' = "create"
    /\ UNCHANGED <<entry, interval, order, audio_duration, video_duration,
                   cut_points, probe_ok, segment_durations, seg_i,
                   current_video_time, planned, segments, final_video,
                   reported, exit_code, ovVars, auxVars>>

\* create_segments_from_timestamps: ffmpeg.probe raises, the except returns []
CreateSegmentsProbeFails ==
    /\ pc = "create"
    /\ probe_ok' = FALSE
    /\ segments' = <<>>
    /\ pc' = "merge"
    /\ UNCHANGED <<entry, interval, order, audio_duration, video_duration,
                   cut_points, filtered_points, segment_durations, seg_i,
                   current_video_time, planned, final_video, reported,
                   exit_code, ovVars, auxVars>>

\* create_segments_from_timestamps up to the loop: the durations, the cursor
CreateSegmentsPlan ==
    /\ pc = "create"
    /\ segment_durations' = PlanDurations(filtered_points, audio_duration, video_duration)
    /\ segments' = <<>>
    /\ current_video_time' = 0
    /\ seg_i' = 0
    /\ pc' = "loop"
    /\ UNCHANGED <<entry, interval, order, audio_duration, video_duration,
                   cut_points, filtered_points, probe_ok, planned,
                   final_video, reported, exit_code, ovVars, auxVars>>

\* a slip: a failed extraction discards the segments collected so far
CollectedResetOnFailure(paths, i, extracted) ==
    IF extracted THEN Append(paths, i) ELSE <<>>

\* if segment_path: segments.append(segment_path); segment i is held as i
Collected(paths, i, extracted) ==
    IF extracted THEN Append(paths, i) ELSE paths

\* one iteration of the loop: loop back, extract, move the cursor
ExtractStep ==
    /\ pc = "loop"
    /\ seg_i < Len(segment_durations)
    /\ LET seg_duration == segment_durations[seg_i + 1]
           start == LoopBack(current_video_time, seg_duration, video_duration)
       IN /\ planned' = Append(planned, [start |-> start, duration |-> seg_duration])
          /\ \E extracted \in BOOLEAN :
                segments' = Collected(segments, seg_i, extracted)
          /\ IF order = "sequential"
             THEN current_video_time' = start + seg_duration
             ELSE \E r \in 0..Max(0, video_duration - seg_duration) :
                     current_video_time' = r
    /\ seg_i' = seg_i + 1
    /\ UNCHANGED <<pc, entry, interval, order, audio_duration, video_duration,
                   cut_points, filtered_points, probe_ok, segment_durations,
                   final_video, reported, exit_code, ovVars, auxVars>>

\* the loop is over: return segments
ReturnSegments ==
    /\ pc = "loop"
    /\ seg_i = Len(segment_durations)
    /\ pc' = "merge"
    /\ UNCHANGED <<entry, interval, order, audio_duration, video_duration,
                   cut_points, filtered_points, probe_ok, segment_durations,
                   seg_i, current_video_time, planned, segments, final_video,
                   reported, exit_code, ovVars, auxVars>>

\* merge_with_audio
Merge ==
    /\ pc = "merge"
    /\ \E encoder_ok \in BOOLEAN : final_video' = MergeResult(segments, encoder_ok)
    /\ pc' = "report"
    /\ UNCHANGED <<entry, interval, order, audio_duration, video_duration,
                   cut_points, filtered_points, probe_ok, segment_durations,
                   seg_i, current_video_time, planned, segments, reported,
                   exit_code, ovVars, auxVars>>

\* standard_workflow after generate_video_phase returned final_video
ReportInteractive ==
    /\ pc = "report"
    /\ entry = "interactive"
    /\ reported' = IF final_video # None THEN "success" ELSE "failure"
    /\ pc' = "done"
    /\ UNCHANGED <<entry, interval, order, audio_duration, video_duration,
                   cut_points, filtered_points, probe_ok, segment_durations,
                   seg_i, current_video_time, planned, segments, final_video,
                   exit_code, ovVars, auxVars>>

\* the generate command: "Video saved" or "Generation failed" and sys.exit(1)
ReportGenerate ==
    /\ pc = "report"
    /\ entry = "generate"
    /\ reported' = IF final_video # None THEN "success" ELSE "failure"
    /\ exit_code' = IF final_video # None THEN 0 ELSE 1
    /\ pc' = "done"
    /\ UNCHANGED <<entry, interval, order, audio_duration, video_duration,
                   cut_points, filtered_points, probe_ok, segment_durations,
                   seg_i, current_video_time, planned, segments, final_video,
                   ovVars, auxVars>>

Next ==
    \/ Analyze
    \/ FilterByInterval
    \/ CreateSegmentsProbeFails
    \/ CreateSegmentsPlan
    \/ ExtractStep
    \/ ReturnSegments
    \/ Merge
    \/ ReportInteractive
    \/ ReportGenerate

Spec == Init /\ [][Next]_vars

\* ---------------------------------------------------------------- overlay scheduler
\* A schedule holds its times as numerators over the common denominator den:
\* start_times[i] / den seconds.  delay_between_images stays in seconds.

RECURSIVE BuildStarts(_, _, _, _)
\* the loop of _calculate_timing: the start of each of n windows from cursor cur
BuildStarts(n, dur, delay, cur) ==
    IF n = 0 THEN <<>>
    ELSE <<cur>> \o BuildStarts(n - 1, dur, delay, cur + dur + delay)

\* a slip: the delays are kept when they leave no time for the images
NaiveTimingKeepDelay(n, host, per_image, delay_in) ==
    LET auto == per_image = <<>>
        total_delay_time == IF n > 1 THEN delay_in * (n - 1) ELSE 0
        too_short == auto /\ host - total_delay_time <= 0
        available_time == IF too_short THEN host ELSE host - total_delay_time
        den == IF auto THEN n ELSE 1
        dur == IF auto
               THEN (IF available_time < MIN_AUTO_DURATION * n
                     THEN MIN_AUTO_DURATION * n ELSE available_time)
               ELSE per_image[1]
        starts == BuildStarts(n, dur, delay_in * den, 0)
        ends == [i \in 1..n |-> starts[i] + dur]
    IN [den |-> den,
        duration_per_image |-> dur,
        start_times |-> starts,
        end_times |-> ends,
        num_images |-> n,
        total_duration |-> ends[n],
        delay_between_images |-> delay_in]

\* a slip: a delay is counted after the last image too
NaiveTimingDelayPerImage(n, host, per_image, delay_in) ==
    LET auto == per_image = <<>>
        total_delay_time == delay_in * n
        too_short == auto /\ host - total_delay_time <= 0
        delay == IF too_short THEN 0 ELSE delay_in
        available_time == IF too_short THEN host ELSE host - total_delay_time
        den == IF auto THEN n ELSE 1
        dur == IF auto
               THEN (IF available_time < MIN_AUTO_DURATION * n
                     THEN MIN_AUTO_DURATION * n ELSE available_time)
               ELSE per_image[1]
        starts == BuildStarts(n, dur, delay * den, 0)
        ends == [i \in 1..n |-> starts[i] + dur]
    IN [den |-> den,
        duration_per_image |-> dur,
        start_times |-> starts,
        end_times |-> ends,
        num_images |-> n,
        total_duration |-> ends[n],
        delay_between_images |-> delay]

\* the schedule before the overrun check; n >= 1
NaiveTiming(n, host, per_image, delay_in) ==
    LET auto == per_image = <<>>
        total_delay_time == IF n > 1 THEN delay_in * (n - 1) ELSE 0
        too_short == auto /\ host - total_delay_time <= 0
        delay == IF too_short THEN 0 ELSE delay_in
        available_time == IF too_short THEN host ELSE host - total_delay_time
        den == IF auto THEN n ELSE 1
        \* available_time / n, raised to 1.0 when below it
        dur == IF auto
               THEN (IF available_time < MIN_AUTO_DURATION * n
                     THEN MIN_AUTO_DURATION * n ELSE available_time)
               ELSE per_image[1]
        starts == BuildStarts(n, dur, delay * den, 0)
        ends == [i \in 1..n |-> starts[i] + dur]
    IN [den |-> den,
        duration_per_image |-> dur,
        start_times |-> starts,
        end_times |-> ends,
        num_images |-> n,
        total_duration |-> ends[n],
        delay_between_images |-> delay]

\* a slip: only the end times are scaled
RescaleEndsOnly(naive, host) ==
    LET total_time == naive.end_times[naive.num_images]
    IN IF total_time > host * naive.den
       THEN [naive EXCEPT
                !.den = total_time,
                !.end_times = [i \in DOMAIN naive.end_times |->
                                  naive.end_times[i] * host],
                !.duration_per_image = naive.duration_per_image * host,
                !.total_duration = host * total_time]
       ELSE naive

\* a slip: the overrun is never scaled down
RescaleNever(naive, host) == naive

\* "Scale everything down proportionally": times t / den become
\* t * host / total_time, total_time the numerator of the last end
Rescale(naive, host) ==
    LET total_time == naive.end_times[naive.num_images]
    IN IF total_time > host * naive.den
       THEN [naive EXCEPT
                !.den = total_time,
                !.start_times = [i \in DOMAIN naive.start_times |->
                                    naive.start_times[i] * host],
                !.end_times = [i \in DOMAIN naive.end_times |->
                                  naive.end_times[i] * host],
                !.duration_per_image = naive.duration_per_image * host,
                !.total_duration = host * total_time]
       ELSE naive

\* a slip: zero images yield a schedule with no windows instead of None
CalculateTimingEmptySchedule(n, host, per_image, delay_in) ==
    IF n = 0
    THEN << [den |-> 1, duration_per_image |-> 0, start_times |-> <<>>,
             end_times |-> <<>>, num_images |-> 0, total_duration |-> 0,
             delay_between_images |-> delay_in] >>
    ELSE << Rescale(NaiveTiming(n, host, per_image, delay_in), host) >>

\* _calculate_timing: with no image the division (auto) or end_times[-1]
\* (explicit) raises and the except returns None
CalculateTiming(n, host, per_image, delay_in) ==
    IF n = 0 THEN <<>>
    ELSE << Rescale(NaiveTiming(n, host, per_image, delay_in), host) >>

\* ---------------------------------------------------------------- image fit
FrameSizes == { <<1080, 1920>>, <<640, 360>> }
ImageSizes == { <<400, 300>>, <<4000, 3000>>, <<1001, 3001>> }

\* what ffprobe reports for an image: its size, or <<>> when the probe fails
\* or finds no video stream
ProbeResults == ImageSizes \cup { <<>> }

\* a slip: an image that is too large is always fitted to the maximum width
ImageDimensionsFitWidth(img, frame_w, frame_h) ==
    LET max_width == (frame_w * IMAGE_MAX_SIZE_PERCENT) \div 100
        max_height == (frame_h * IMAGE_MAX_SIZE_PERCENT) \div 100
        target_height == (max_width * img[2]) \div img[1]
    IN IF img = <<>> THEN <<max_width, max_height>>
       ELSE IF img[1] <= max_width /\ img[2] <= max_height
       THEN <<img[1], img[2]>>
       ELSE <<max_width - (max_width % 2), target_height - (target_height % 2)>>

\* _calculate_image_dimensions for a probe result img
ImageDimensions(img, frame_w, frame_h) ==
    LET max_width == (frame_w * IMAGE_MAX_SIZE_PERCENT) \div 100
        max_height == (frame_h * IMAGE_MAX_SIZE_PERCENT) \div 100
        img_width == img[1]
        img_height == img[2]
        wider == img_width * max_height > max_width * img_height
        target_width == IF wider THEN max_width
                        ELSE (max_height * img_width) \div img_height
        target_height == IF wider THEN (max_width * img_height) \div img_width
                         ELSE max_height
    IN IF img = <<>> THEN <<max_width, max_height>>
       ELSE IF img_width <= max_width /\ img_height <= max_height
       THEN <<img_width, img_height>>
       ELSE <<target_width - (target_width % 2), target_height - (target_height % 2)>>

\* ---------------------------------------------------------------- animation curves
\* Curve times are integers in units of 1 / (4 * den) seconds, so that a
\* quarter of a window is exact.  A position p(t) is held as p(t) * anim_duration.
SlideStyles == {"slide_bottom", "slide_top", "slide_left", "slide_right"}

\* random.choice over the five styles when the style is 'random'
ResolvedStyles(style) ==
    IF style = "random" THEN SlideStyles \cup {"fade"} ELSE {style}

\* a slip: the cap is half of the window
AnimDurationHalfWindow(configured, actual_duration) ==
    Min(configured, actual_duration \div 2)

\* a slip: the 25% cap on the animation time is missing
AnimDurationUncapped(configured, actual_duration) ==
    configured

\* "Animation timing": min(animation_duration, actual_duration * 0.25)
AnimDuration(configured, actual_duration) ==
    Min(configured, actual_duration \div 4)

\* a slip: the branch for t before the start is missing
SlideFromFarNoBefore(off, center, c, t) ==
    IF t < c.start_time + c.anim_duration
    THEN off * c.anim_duration - ((off - center) * (t - c.start_time))
    ELSE IF t < c.exit_start_time
    THEN center * c.anim_duration
    ELSE center * c.anim_duration + ((off - center) * (t - c.exit_start_time))

\* the expression of slide_bottom (y) and slide_right (x):
\* if(lt(t,start),off, if(lt(t,start+anim), off-((off-center)*(t-start)/anim),
\*   if(lt(t,exit_start),center, center+((off-center)*(t-exit_start)/anim))))
SlideFromFar(off, center, c, t) ==
    IF t < c.start_time
    THEN off * c.anim_duration
    ELSE IF t < c.start_time + c.anim_duration
    THEN off * c.anim_duration - ((off - center) * (t - c.start_time))
    ELSE IF t < c.exit_start_time
    THEN center * c.anim_duration
    ELSE center * c.anim_duration + ((off - center) * (t - c.exit_start_time))

\* the expression of slide_top (y) and slide_left (x):
\* if(lt(t,start),off, if(lt(t,start+anim), off+((center-off)*(t-start)/anim),
\*   if(lt(t,exit_start),center, center-((center-off)*(t-exit_start)/anim))))
SlideFromNear(off, center, c, t) ==
    IF t < c.start_time
    THEN off * c.anim_duration
    ELSE IF t < c.start_time + c.anim_duration
    THEN off * c.anim_duration + ((center - off) * (t - c.start_time))
    ELSE IF t < c.exit_start_time
    THEN center * c.anim_duration
    ELSE center * c.anim_duration - ((center - off) * (t - c.exit_start_time))

\* a slip: the anchors above and to the left forget the item's own size
OffScreenAnchorNoItemSize(c) ==
    CASE c.animation_type = "slide_bottom" ->
             <<c.center_x, c.video_height + OFF_SCREEN_MARGIN>>
      [] c.animation_type = "slide_top" ->
             <<c.center_x, 0 - OFF_SCREEN_MARGIN>>
      [] c.animation_type = "slide_left" ->
             <<0 - OFF_SCREEN_MARGIN, c.center_y>>
      [] c.animation_type = "slide_right" ->
             <<c.video_width + OFF_SCREEN_MARGIN, c.center_y>>
      [] OTHER -> <<c.center_x, c.center_y>>

\* the off-screen anchor of a style: <<x, y>>
OffScreenAnchor(c) ==
    CASE c.animation_type = "slide_bottom" ->
             <<c.center_x, c.video_height + OFF_SCREEN_MARGIN>>
      [] c.animation_type = "slide_top" ->
             <<c.center_x, (0 - c.img_height) - OFF_SCREEN_MARGIN>>
      [] c.animation_type = "slide_left" ->
             <<(0 - c.img_width) - OFF_SCREEN_MARGIN, c.center_y>>
      [] c.animation_type = "slide_right" ->
             <<c.video_width + OFF_SCREEN_MARGIN, c.center_y>>
      [] OTHER -> <<c.center_x, c.center_y>>

\* x_expr at time t, times anim_duration
XExpr(c, t) ==
    CASE c.animation_type = "slide_left" ->
             SlideFromNear(OffScreenAnchor(c)[1], c.center_x, c, t)
      [] c.animation_type = "slide_right" ->
             SlideFromFar(OffScreenAnchor(c)[1], c.center_x, c, t)
      [] OTHER -> c.center_x * c.anim_duration

\* y_expr at time t, times anim_duration
YExpr(c, t) ==
    CASE c.animation_type = "slide_bottom" ->
             SlideFromFar(OffScreenAnchor(c)[2], c.center_y, c, t)
      [] c.animation_type = "slide_top" ->
             SlideFromNear(OffScreenAnchor(c)[2], c.center_y, c, t)
      [] OTHER -> c.center_y * c.anim_duration

\* one iteration of STEP 2 of _build_filter_complex for image i (0-based):
\* the arguments handed to _build_animation_expressions
BuildCurve(i, img, style) ==
    LET dims == ImageDimensions(img, video_width, video_height)
        start_time == 4 * timing_info[1].start_times[i + 1]
        end_time == 4 * timing_info[1].end_times[i + 1]
        actual_duration == end_time - start_time
        anim_duration == AnimDuration(animation_duration * 4 * timing_info[1].den,
                                      actual_duration)
    IN [animation_type |-> style,
        probed |-> img,
        video_width |-> video_width,
        video_height |-> video_height,
        img_width |-> dims[1],
        img_height |-> dims[2],
        center_x |-> (video_width - dims[1]) \div 2,
        center_y |-> (video_height - dims[2]) \div 2,
        start_time |-> start_time,
        end_time |-> end_time,
        anim_duration |-> anim_duration,
        exit_start_time |-> end_time - anim_duration]

\* the sampled times of a curve, in its own units: every time from one
\* second before 0 to one second after the host video's end
CurveTimes ==
    IF timing_info = <<>> THEN {}
    ELSE (0 - 4 * timing_info[1].den)
             .. ((video_duration + 1) * 4 * timing_info[1].den)

\* ---------------------------------------------------------------- overlay run
GenerationIdle ==
    /\ pc = "idle"
    /\ entry = "overlay"
    /\ interval = 1
    /\ order = "sequential"
    /\ audio_duration = 0
    /\ cut_points = <<>>
    /\ filtered_points = <<>>
    /\ probe_ok = TRUE
    /\ segment_durations = <<>>
    /\ seg_i = 0
    /\ current_video_time = 0
    /\ planned = <<>>
    /\ segments = <<>>
    /\ final_video = None
    /\ reported = "none"
    /\ exit_code = 0

InitOverlay ==
    /\ GenerationIdle
    /\ AuxIdle
    /\ ov_pc = "timing"
    /\ num_images \in 0..MaxImages
    /\ video_duration \in 1..MaxHost
    /\ duration_per_image \in {<<>>} \cup { <<d>> : d \in 1..MaxPerImage }
    /\ delay_between_images \in 0..MaxDelay
    /\ animation_style \in SlideStyles \cup {"fade", "random"}
    /\ animation_duration \in 1..MaxAnimation
    /\ \E frame \in FrameSizes : video_width = frame[1] /\ video_height = frame[2]
    /\ timing_info = <<>>
    /\ ov_i = 0
    /\ curve = <<>>
    /\ overlay_result = None

\* _calculate_timing; a None result ends the run with None
CalculateTimingStep ==
    /\ ov_pc = "timing"
    /\ timing_info' = CalculateTiming(num_images, video_duration,
                                      duration_per_image, delay_between_images)
    /\ ov_pc' = IF timing_info' = <<>> THEN "done" ELSE "build"
    /\ UNCHANGED <<genVars, auxVars, video_duration, num_images, duration_per_image,
                   delay_between_images, animation_style, animation_duration,
                   video_width, video_height, ov_i, curve, overlay_result>>

\* _build_filter_complex, one image of the overlay chain
BuildOverlay ==
    /\ ov_pc = "build"
    /\ ov_i < num_images
    /\ \E img \in ProbeResults, style \in ResolvedStyles(animation_style) :
           curve' = << BuildCurve(ov_i, img, style) >>
    /\ ov_i' = ov_i + 1
    /\ UNCHANGED <<genVars, auxVars, video_duration, ov_pc, num_images, duration_per_image,
                   delay_between_images, timing_info, animation_style,
                   animation_duration, video_width, video_height, overlay_result>>

\* _execute_ffmpeg and the return of process()
ExecuteFfmpeg ==
    /\ ov_pc = "build"
    /\ ov_i = num_images
    /\ \E success \in BOOLEAN :
           overlay_result' = IF success THEN "output" ELSE None
    /\ ov_pc' = "done"
    /\ UNCHANGED <<genVars, auxVars, video_duration, num_images, duration_per_image,
                   delay_between_images, timing_info, animation_style,
                   animation_duration, video_width, video_height, ov_i, curve>>

NextOverlay ==
    \/ CalculateTimingStep
    \/ BuildOverlay
    \/ ExecuteFfmpeg

SpecOverlay == InitOverlay /\ [][NextOverlay]_vars

\* ---------------------------------------------------------------- text overlay
\* longest caption of a run
MaxTextLen == 30

\* frame widths of the host video
TextFrameWidths == {360, 640, 1080, 1344}

\* the configuration read by the layout: font size bounds and box padding
TextConfigs == { [min_font |-> 24, max_font |-> 80, padding |-> 20] }

\* int(available_width / (char_count * 0.6)) with available_width =
\* video_width * 0.85, computed in double precision.  The real quotient is
\* 17*video_width / (12*char_count).  The two products and the division each
\* round, so when the real quotient is a whole number q the double quotient is
\* q or the double just below q, and int() yields q or q - 1 (CPython:
\* int(1080 * 0.85 / (17 * 0.6)) = 90, int(1344 * 0.85 / (28 * 0.6)) = 67).
\* A real quotient that is not whole is further from a whole number than the
\* rounding error, and int() yields its floor.
RawFontSizes(count, width) ==
    LET q == (17 * width) \div (12 * count)
    IN IF (17 * width) % (12 * count) = 0 THEN {q - 1, q} ELSE {q}

\* _calculate_font_size: the values it can return
CalculateFontSize(count, width, cfg) ==
    IF count = 0
    THEN {cfg.max_font}
    ELSE { Max(cfg.min_font, Min(f, cfg.max_font)) : f \in RawFontSizes(count, width) }

\* a slip: the vertical breathing room (font_size * 1.5) is missing
BoxDimensionsNoBreathingRoom(count, size, cfg) ==
    << (3 * count * size) \div 5 + cfg.padding * 2, size + cfg.padding * 2 >>

\* _calculate_box_dimensions: <<box_width, box_height>>.
\* int(len(text) * font_size * 0.6) is floor(3*len*font_size / 5) (the double
\* product rounds to the whole number whenever the real one is whole, for
\* every len*font_size below 20000); int(font_size * 1.5) is exact.
BoxDimensions(count, size, cfg) ==
    << (3 * count * size) \div 5 + cfg.padding * 2,
       (3 * size) \div 2 + cfg.padding * 2 >>

InitText ==
    /\ GenerationIdle
    /\ OverlayIdle
    /\ InputsIdle
    /\ RunsIdle
    /\ AnalyzerIdle
    /\ video_duration = 1
    /\ tx_pc = "validate"
    /\ tx_entry \in {"process", "preview"}
    /\ char_count \in 0..MaxTextLen
    /\ tx_video_width \in TextFrameWidths
    /\ tx_config \in TextConfigs
    /\ font_size = 0
    /\ box_width = 0
    /\ box_height = 0
    /\ text_result = None

\* process(): an empty text or an unreadable video returns None;
\* preview_settings(): only an unreadable video does
TextValidate ==
    /\ tx_pc = "validate"
    /\ \E video_ok \in BOOLEAN :
           tx_pc' = IF video_ok /\ (tx_entry = "preview" \/ char_count > 0)
                    THEN "font" ELSE "done"
    /\ UNCHANGED <<nonTxVars, tx_entry, char_count,
                   tx_video_width, tx_config, font_size, box_width, box_height,
                   text_result>>

\* font_size = self._calculate_font_size(text, video_width)
TextFontSize ==
    /\ tx_pc = "font"
    /\ font_size' \in CalculateFontSize(char_count, tx_video_width, tx_config)
    /\ tx_pc' = "box"
    /\ UNCHANGED <<nonTxVars, tx_entry, char_count,
                   tx_video_width, tx_config, box_width, box_height,
                   text_result>>

\* box_width, box_height = self._calculate_box_dimensions(text, font_size)
TextBoxDimensions ==
    /\ tx_pc = "box"
    /\ box_width' = BoxDimensions(char_count, font_size, tx_config)[1]
    /\ box_height' = BoxDimensions(char_count, font_size, tx_config)[2]
    /\ tx_pc' = "return"
    /\ UNCHANGED <<nonTxVars, tx_entry, char_count,
                   tx_video_width, tx_config, font_size, text_result>>

\* preview_settings returns the dict; process runs ffmpeg and returns the
\* output path or None
TextReturn ==
    /\ tx_pc = "return"
    /\ \E success \in BOOLEAN :
           text_result' = IF tx_entry = "preview" THEN "preview"
                          ELSE IF success THEN "output" ELSE None
    /\ tx_pc' = "done"
    /\ UNCHANGED <<nonTxVars, tx_entry, char_count,
                   tx_video_width, tx_config, font_size, box_width, box_height>>

NextText ==
    \/ TextValidate
    \/ TextFontSize
    \/ TextBoxDimensions
    \/ TextReturn

SpecText == InitText /\ [][NextText]_vars

\* ---------------------------------------------------------------- concurrent runs
\* what extract_segment writes for segment i of run r
SegmentContent(r, i) == [run |-> r, seg |-> i]

\* what the concat demuxer produces: the contents of the files the list names,
\* as they are when it reads them
ConcatContent(list) ==
    [k \in 1..Len(list.paths) |-> segment_files[list.paths[k]][1]]

\* the file extract_segment of run r writes for loop index i:
\* self.temp_dir / f"segment_{i:04d}.mp4", the same for every run
ExtractTarget(r, i) == i

InitRuns ==
    /\ GenerationIdle
    /\ OverlayIdle
    /\ InputsIdle
    /\ TextIdle
    /\ AnalyzerIdle
    /\ video_duration = 1
    /\ run_pc = [r \in Runs |-> "extract"]
    /\ run_n \in [Runs -> 1..MaxRunSegments]
    /\ run_i = [r \in Runs |-> 0]
    /\ run_segment_paths = [r \in Runs |-> <<>>]
    /\ segment_files = [i \in 0..(MaxRunSegments - 1) |-> <<>>]
    /\ concat_file = <<>>
    /\ temp_video = <<>>
    /\ output_file = [r \in Runs |-> <<>>]

\* one iteration of the loop of create_segments_from_timestamps: ffmpeg -y
\* writes the segment file; the path is appended when it succeeded
RunExtract(r) ==
    /\ run_pc[r] = "extract"
    /\ run_i[r] < run_n[r]
    /\ \E extracted \in BOOLEAN :
          IF extracted
          THEN /\ segment_files' =
                      [segment_files EXCEPT ![ExtractTarget(r, run_i[r])] =
                                                << SegmentContent(r, run_i[r]) >>]
               /\ run_segment_paths' =
                      [run_segment_paths EXCEPT ![r] =
                                         Append(@, ExtractTarget(r, run_i[r]))]
          ELSE UNCHANGED <<segment_files, run_segment_paths>>
    /\ run_i' = [run_i EXCEPT ![r] = @ + 1]
    /\ UNCHANGED <<nonRunVars, run_pc, run_n, concat_file, temp_video, output_file>>

\* merge_segments_with_audio, up to the concat list: no segment returns None,
\* otherwise segments_concat.txt is written
RunWriteConcat(r) ==
    /\ run_pc[r] = "extract"
    /\ run_i[r] = run_n[r]
    /\ IF run_segment_paths[r] = <<>>
       THEN /\ run_pc' = [run_pc EXCEPT ![r] = "done"]
            /\ UNCHANGED concat_file
       ELSE /\ run_pc' = [run_pc EXCEPT ![r] = "concat"]
            /\ concat_file' = << [run |-> r, paths |-> run_segment_paths[r]] >>
    /\ UNCHANGED <<nonRunVars, run_n, run_i, run_segment_paths, segment_files,
                   temp_video, output_file>>

\* ffmpeg -f concat -i segments_concat.txt ... -y temp_concat.mp4: it fails
\* (return None) when the list is gone or the encoder fails
RunConcat(r) ==
    /\ run_pc[r] = "concat"
    /\ \E encoder_ok \in BOOLEAN :
          IF encoder_ok /\ concat_file # <<>>
          THEN /\ temp_video' = << ConcatContent(concat_file[1]) >>
               /\ run_pc' = [run_pc EXCEPT ![r] = "audio"]
          ELSE /\ UNCHANGED temp_video
               /\ run_pc' = [run_pc EXCEPT ![r] = "done"]
    /\ UNCHANGED <<nonRunVars, run_n, run_i, run_segment_paths, segment_files,
                   concat_file, output_file>>

\* ffmpeg -i temp_concat.mp4 ... -y output_path: the output holds the video of
\* temp_concat.mp4 as it is then
RunAddAudio(r) ==
    /\ run_pc[r] = "audio"
    /\ \E encoder_ok \in BOOLEAN :
          output_file' = IF encoder_ok /\ temp_video # <<>>
                         THEN [output_file EXCEPT ![r] = temp_video]
                         ELSE output_file
    /\ run_pc' = [run_pc EXCEPT ![r] = "cleanup"]
    /\ UNCHANGED <<nonRunVars, run_n, run_i, run_segment_paths, segment_files,
                   concat_file, temp_video>>

\* "Cleanup": the concat list and temp_concat.mp4 are deleted if they exist
RunCleanup(r) ==
    /\ run_pc[r] = "cleanup"
    /\ concat_file' = <<>>
    /\ temp_video' = <<>>
    /\ run_pc' = [run_pc EXCEPT ![r] = "done"]
    /\ UNCHANGED <<nonRunVars, run_n, run_i, run_segment_paths, segment_files,
                   output_file>>

NextRuns ==
    \E r \in Runs :
        \/ RunExtract(r)
        \/ RunWriteConcat(r)
        \/ RunConcat(r)
        \/ RunAddAudio(r)
        \/ RunCleanup(r)

SpecRuns == InitRuns /\ [][NextRuns]_vars

\* ---------------------------------------------------------------- analyze_audio
\* latest detection, in ticks of 0.05 s
MaxTick == 5

\* most points one analysis detects
MaxDetections == 2

\* "Merge nearby points (within 0.1 seconds)": 0.1 s in ticks of 0.05 s
MERGE_THRESHOLD == 2

\* what an analysis can detect: ascending timestamps
Detections ==
    { SortedSeq(S) : S \in { T \in SUBSET (0..MaxTick) : Cardinality(T) <= MaxDetections } }

\* the weight pairs a caller can pass, in tenths (default 0.7 and 0.3)
WeightPairs == { <<7, 3>>, <<3, 7>> }

\* for t in times: all_times.append((t, weight))
Weighted(times, weight) ==
    [k \in 1..Len(times) |-> [time |-> times[k], weight |-> weight]]

\* list.sort(key=lambda x: x[0]), a stable sort: insert x behind every element
\* whose time is not greater
RECURSIVE InsertByTime(_, _)
InsertByTime(sorted, x) ==
    IF sorted = <<>> THEN << x >>
    ELSE IF sorted[Len(sorted)].time <= x.time THEN Append(sorted, x)
    ELSE Append(InsertByTime(SubSeq(sorted, 1, Len(sorted) - 1), x),
                sorted[Len(sorted)])

RECURSIVE SortByTime(_)
SortByTime(all_times) ==
    IF all_times = <<>> THEN <<>>
    ELSE InsertByTime(SortByTime(SubSeq(all_times, 1, Len(all_times) - 1)),
                      all_times[Len(all_times)])

\* a slip: a point exactly 0.1 s after the kept one is kept too
RECURSIVE MergeNearbyAtLeast(_, _)
MergeNearbyAtLeast(all_times, last_time) ==
    IF all_times = <<>> THEN <<>>
    ELSE IF all_times[1].time - last_time >= MERGE_THRESHOLD
    THEN << all_times[1].time >>
             \o MergeNearbyAtLeast(Tail(all_times), all_times[1].time)
    ELSE MergeNearbyAtLeast(Tail(all_times), last_time)

\* for time, weight in all_times: if time - last_time > 0.1: keep it
RECURSIVE MergeNearby(_, _)
MergeNearby(all_times, last_time) ==
    IF all_times = <<>> THEN <<>>
    ELSE IF all_times[1].time - last_time > MERGE_THRESHOLD
    THEN << all_times[1].time >> \o MergeNearby(Tail(all_times), all_times[1].time)
    ELSE MergeNearby(Tail(all_times), last_time)

\* analyze_hybrid once both analyses have returned; last_time starts at -1.0
AnalyzeHybrid(beats, vocals, beat_weight, vocal_weight) ==
    MergeNearby(SortByTime(Weighted(beats, beat_weight)
                               \o Weighted(vocals, vocal_weight)),
                0 - 10 * MERGE_THRESHOLD)

\* a slip: an unknown mode falls back to the beat analysis
RouteUnknownToBeats(m) ==
    IF m = "vocals" THEN "vocals" ELSE "beats"

\* the if/elif chain of analyze_audio: the first step of the call
Route(m) ==
    CASE m = "beats" -> "beats"
      [] m = "vocals" -> "vocals"
      [] m = "hybrid" -> "beats"
      [] OTHER -> "done"

InitAnalyze ==
    /\ GenerationIdle
    /\ OverlayIdle
    /\ InputsIdle
    /\ TextIdle
    /\ RunsIdle
    /\ video_duration = 1
    /\ an_pc = "dispatch"
    /\ mode \in {"beats", "vocals", "hybrid", "other"}
    /\ audio_exists \in BOOLEAN
    /\ weights \in WeightPairs
    /\ beat_failed = FALSE
    /\ vocal_failed = FALSE
    /\ beat_times = <<>>
    /\ vocal_times = <<>>
    /\ an_result = <<>>

\* analyze_audio: dispatch on the mode; an unknown mode returns []
Dispatch ==
    /\ an_pc = "dispatch"
    /\ an_pc' = Route(mode)
    /\ UNCHANGED <<nonAnVars, mode, audio_exists, weights, beat_failed,
                   vocal_failed, beat_times, vocal_times, an_result>>

\* analyze_beats: [] when the file is missing or the analysis raises
AnalyzeBeats ==
    /\ an_pc = "beats"
    /\ \E raised \in BOOLEAN, detected \in Detections :
          /\ beat_failed' = (audio_exists /\ raised)
          /\ beat_times' = IF audio_exists /\ ~raised THEN detected ELSE <<>>
    /\ IF mode = "hybrid"
       THEN an_pc' = "vocals" /\ UNCHANGED an_result
       ELSE an_pc' = "done" /\ an_result' = beat_times'
    /\ UNCHANGED <<nonAnVars, mode, audio_exists, weights, vocal_failed,
                   vocal_times>>

\* analyze_vocal_changes: [] when the file is missing or the analysis raises
AnalyzeVocals ==
    /\ an_pc = "vocals"
    /\ \E raised \in BOOLEAN, detected \in Detections :
          /\ vocal_failed' = (audio_exists /\ raised)
          /\ vocal_times' = IF audio_exists /\ ~raised THEN detected ELSE <<>>
    /\ IF mode = "hybrid"
       THEN an_pc' = "merge" /\ UNCHANGED an_result
       ELSE an_pc' = "done" /\ an_result' = vocal_times'
    /\ UNCHANGED <<nonAnVars, mode, audio_exists, weights, beat_failed,
                   beat_times>>

\* analyze_hybrid: combine, sort by time, merge nearby points
MergeHybrid ==
    /\ an_pc = "merge"
    /\ an_result' = AnalyzeHybrid(beat_times, vocal_times, weights[1], weights[2])
    /\ an_pc' = "done"
    /\ UNCHANGED <<nonAnVars, mode, audio_exists, weights, beat_failed,
                   vocal_failed, beat_times, vocal_times>>

NextAnalyze ==
    \/ Dispatch
    \/ AnalyzeBeats
    \/ AnalyzeVocals
    \/ MergeHybrid

SpecAnalyze == InitAnalyze /\ [][NextAnalyze]_vars

\* ---------------------------------------------------------------- overlay request
\* the most negative explicit per-image duration of a request
MaxNegativeDuration == 1

\* the most negative delay a user supplies
MaxNegativeDelay == 1

\* image_overlay_workflow: a duration <= 0 typed by the user means auto mode
PromptedDuration(per_image) ==
    IF per_image # <<>> /\ per_image[1] <= 0 THEN <<>> ELSE per_image

\* image_overlay_workflow: a negative delay typed by the user becomes 0.0
PromptedDelay(delay) ==
    IF delay < 0 THEN 0 ELSE delay

\* validate_overlay_inputs: video, folder, images, explicit duration
ValidateOverlayInputs(video_ok, folder_ok, n, per_image) ==
    /\ video_ok
    /\ folder_ok
    /\ n > 0
    /\ per_image = <<>> \/ per_image[1] > 0

\* the checks of process() before the schedule is computed
ProcessInputsOk(video_ok, folder_ok, n) ==
    /\ video_ok
    /\ folder_ok
    /\ n > 0

InitInputs ==
    /\ GenerationIdle
    /\ TextIdle
    /\ RunsIdle
    /\ AnalyzerIdle
    /\ ov_entry \in {"cli", "api", "interactive"}
    /\ video_exists \in BOOLEAN
    /\ folder_exists \in BOOLEAN
    /\ num_images \in IF folder_exists THEN 0..MaxImages ELSE {0}
    \* the workflow asks again until the folder holds an image
    /\ ov_entry = "interactive" => folder_exists /\ num_images > 0
    /\ video_duration \in 1..MaxHost
    /\ duration_per_image \in
           {<<>>} \cup { <<d>> : d \in (0 - MaxNegativeDuration)..MaxPerImage }
    /\ delay_between_images \in (0 - MaxNegativeDelay)..MaxDelay
    /\ animation_style = "fade"
    /\ animation_duration = 1
    /\ \E frame \in FrameSizes : video_width = frame[1] /\ video_height = frame[2]
    /\ ov_pc = CASE ov_entry = "cli" -> "validate"
                 [] ov_entry = "interactive" -> "prompt"
                 [] OTHER -> "process"
    /\ timing_info = <<>>
    /\ ov_i = 0
    /\ curve = <<>>
    /\ overlay_result = None
    /\ scheduled = <<>>
    /\ encoder_invoked = FALSE
    /\ ov_exit = <<>>

\* image_overlay_workflow, STEP 3: the duration and the delay typed by the user
WorkflowPrompt ==
    /\ ov_pc = "prompt"
    /\ duration_per_image' = PromptedDuration(duration_per_image)
    /\ delay_between_images' = PromptedDelay(delay_between_images)
    /\ ov_pc' = "preview"
    /\ UNCHANGED <<genVars, video_duration, txVars, runVars, anVars, num_images,
                   timing_info, animation_style, animation_duration, video_width,
                   video_height, ov_i, curve, overlay_result, ov_entry,
                   video_exists, folder_exists, scheduled, encoder_invoked,
                   ov_exit>>

\* overlay_images: validate_overlay_inputs, sys.exit(1) when it fails
CliValidate ==
    /\ ov_pc = "validate"
    /\ IF ValidateOverlayInputs(video_exists, folder_exists, num_images,
                                duration_per_image)
       THEN ov_pc' = "preview" /\ UNCHANGED ov_exit
       ELSE ov_pc' = "done" /\ ov_exit' = <<1>>
    /\ UNCHANGED <<genVars, video_duration, txVars, runVars, anVars, num_images,
                   duration_per_image, delay_between_images, timing_info,
                   animation_style, animation_duration, video_width,
                   video_height, ov_i, curve, overlay_result, ov_entry,
                   video_exists, folder_exists, scheduled, encoder_invoked>>

\* overlay_images and image_overlay_workflow: preview_image_timing runs the
\* scheduler
CliPreview ==
    /\ ov_pc = "preview"
    /\ scheduled' = Append(scheduled, [num_images |-> num_images,
                                       duration_per_image |-> duration_per_image])
    /\ ov_pc' = "process"
    /\ UNCHANGED <<genVars, video_duration, txVars, runVars, anVars, num_images,
                   duration_per_image, delay_between_images, timing_info,
                   animation_style, animation_duration, video_width,
                   video_height, ov_i, curve, overlay_result, ov_entry,
                   video_exists, folder_exists, encoder_invoked, ov_exit>>

\* process(): a missing video, a missing folder or no image returns None
ProcessValidate ==
    /\ ov_pc = "process"
    /\ ov_pc' = IF ProcessInputsOk(video_exists, folder_exists, num_images)
                THEN "timing" ELSE "return"
    /\ UNCHANGED <<genVars, video_duration, txVars, runVars, anVars, num_images,
                   duration_per_image, delay_between_images, timing_info,
                   animation_style, animation_duration, video_width,
                   video_height, ov_i, curve, overlay_result, ov_entry,
                   video_exists, folder_exists, scheduled, encoder_invoked,
                   ov_exit>>

\* process(): _calculate_timing; None returns None
ProcessTiming ==
    /\ ov_pc = "timing"
    /\ scheduled' = Append(scheduled, [num_images |-> num_images,
                                       duration_per_image |-> duration_per_image])
    /\ timing_info' = CalculateTiming(num_images, video_duration,
                                      duration_per_image, delay_between_images)
    /\ ov_pc' = IF timing_info' = <<>> THEN "return" ELSE "encode"
    /\ UNCHANGED <<genVars, video_duration, txVars, runVars, anVars, num_images,
                   duration_per_image, delay_between_images, animation_style,
                   animation_duration, video_width, video_height, ov_i, curve,
                   overlay_result, ov_entry, video_exists, folder_exists,
                   encoder_invoked, ov_exit>>

\* process(): the filter is built and _execute_ffmpeg runs the encoder
ProcessEncode ==
    /\ ov_pc = "encode"
    /\ encoder_invoked' = TRUE
    /\ \E success \in BOOLEAN :
           overlay_result' = IF success THEN "output" ELSE None
    /\ ov_pc' = "return"
    /\ UNCHANGED <<genVars, video_duration, txVars, runVars, anVars, num_images,
                   duration_per_image, delay_between_images, timing_info,
                   animation_style, animation_duration, video_width,
                   video_height, ov_i, curve, ov_entry, video_exists,
                   folder_exists, scheduled, ov_exit>>

\* the caller receives the result; overlay_images exits with 1 on None
ProcessReturn ==
    /\ ov_pc = "return"
    /\ ov_exit' = IF ov_entry = "cli"
                  THEN (IF overlay_result = None THEN <<1>> ELSE <<0>>)
                  ELSE ov_exit
    /\ ov_pc' = "done"
    /\ UNCHANGED <<genVars, video_duration, txVars, runVars, anVars, num_images,
                   duration_per_image, delay_between_images, timing_info,
                   animation_style, animation_duration, video_width,
                   video_height, ov_i, curve, overlay_result, ov_entry,
                   video_exists, folder_exists, scheduled, encoder_invoked>>

NextInputs ==
    \/ WorkflowPrompt
    \/ CliValidate
    \/ CliPreview
    \/ ProcessValidate
    \/ ProcessTiming
    \/ ProcessEncode
    \/ ProcessReturn

SpecInputs == InitInputs /\ [][NextInputs]_vars

\* ---------------------------------------------------------------- claims: generation run
PlanningDone == pc \in {"merge", "report", "done"} /\ probe_ok

\* C3 (as claimed): every segment handed to extraction has sourceStart >= 0,
\* duration > 0 and sourceStart + duration <= sourceVideoDuration.
C3_SegmentWithinSource ==
    \A k \in DOMAIN planned :
        /\ planned[k].start >= 0
        /\ planned[k].duration > 0
        /\ planned[k].start + planned[k].duration <= video_duration

\* C4 (as claimed): in sequential order,
\* sourceStart[i+1] = (sourceStart[i] + duration[i]) mod sourceDuration.
C4_ModuloRule ==
    order = "sequential" =>
        \A k \in 1..(Len(planned) - 1) :
            planned[k + 1].start =
                (planned[k].start + planned[k].duration) % video_duration

\* C4 (amended): in sequential order, sourceStart[i+1] is
\* sourceStart[i] + duration[i] when that cursor plus duration[i+1] still fits
\* in the source, and 0 otherwise.
C4_CursorRule ==
    order = "sequential" =>
        \A k \in 1..(Len(planned) - 1) :
            LET cursor == planned[k].start + planned[k].duration
            IN planned[k + 1].start =
                   IF cursor + planned[k + 1].duration <= video_duration
                   THEN cursor ELSE 0

\* C4 witness: a sequential plan whose second segment continues where the
\* first one ended.
C4_Witness ==
    /\ order = "sequential"
    /\ Len(planned) >= 2
    /\ planned[2].start = planned[1].start + planned[1].duration
    /\ planned[2].start > 0

\* C5: outside the single-segment fallback, every planned duration (cut-point
\* derived or filler) is at least MIN_SEGMENT_DURATION.
C5_MinSegmentDuration ==
    Candidates(filtered_points) # <<>> =>
        /\ \A k \in DOMAIN segment_durations :
               segment_durations[k] >= MIN_SEGMENT_DURATION
        /\ \A k \in DOMAIN planned :
               planned[k].duration >= MIN_SEGMENT_DURATION

\* C5 witness: a finished plan of cut-point segments plus the filler.
C5_Witness ==
    /\ PlanningDone
    /\ Candidates(filtered_points) # <<>>
    /\ Len(planned) = Len(Candidates(filtered_points)) + 1
    /\ Len(planned) >= 2

\* C6 (as claimed): the planned durations sum to the target within
\* MIN_SEGMENT_DURATION and never exceed it.
C6_SumMatchesTarget ==
    PlanningDone =>
        LET total == SumSeq(segment_durations)
        IN /\ total <= audio_duration
           /\ audio_duration - total <= MIN_SEGMENT_DURATION

\* C7: with no valid candidate the plan is exactly one segment, at source
\* offset 0, of duration min(target, source), and nothing else.
C7_FallbackSingleSegment ==
    (PlanningDone /\ Candidates(filtered_points) = <<>>) =>
        planned = << [start |-> 0,
                      duration |-> Min(audio_duration, video_duration)] >>

\* C7 witness: cut points exist but every consecutive delta was filtered out,
\* and the target is longer than the source.
C7_Witness ==
    /\ PlanningDone
    /\ Len(filtered_points) >= 2
    /\ Candidates(filtered_points) = <<>>
    /\ audio_duration > video_duration
    /\ Len(planned) = 1

\* C8: an empty timeline gives no merged output, and the caller reports a
\* failure (the generate command exits with status 1), never a success.
C8_EmptyTimelineFails ==
    /\ (pc \in {"report", "done"} /\ segments = <<>>) => final_video = None
    /\ (pc = "done" /\ segments = <<>>) =>
           /\ reported = "failure"
           /\ entry = "generate" => exit_code = 1

\* C8 witness: a run of the generate command in which every extraction of a
\* plan of at least two segments failed.
C8_Witness ==
    /\ pc = "done"
    /\ entry = "generate"
    /\ probe_ok
    /\ Len(planned) >= 2
    /\ segments = <<>>

\* C9: the decimated list is points[0], points[I], points[2I], ... : every
\* index k*I below len(points), in order, under both entry points.
C9_StrideSampling ==
    pc \notin {"analyze", "filter"} =>
        /\ Len(filtered_points) = (Len(cut_points) + interval - 1) \div interval
        /\ \A k \in 1..Len(filtered_points) :
               filtered_points[k] = cut_points[(k - 1) * interval + 1]

\* C9 witness: three cut points decimated with interval 2.
C9_Witness ==
    /\ pc = "create"
    /\ interval = 2
    /\ Len(cut_points) = 3
    /\ Len(filtered_points) = 2

\* ---------------------------------------------------------------- claims: overlay run
\* the inputs the scheduler's contract covers
SchedulerPrecondition ==
    /\ num_images >= 1
    /\ video_duration > 0
    /\ delay_between_images >= 0
    /\ duration_per_image = <<>> \/ duration_per_image[1] > 0

\* the schedule before the overrun check, for the run's inputs
NaiveOfRun ==
    NaiveTiming(num_images, video_duration, duration_per_image, delay_between_images)

\* the naive schedule overruns the host video
Overruns == NaiveOfRun.end_times[num_images] > video_duration * NaiveOfRun.den

\* C1: every window of the returned schedule has 0 <= start < end <= hostDuration,
\* and consecutive windows do not overlap: end[i] <= start[i+1].
C1_WindowsOrderedWithinHost ==
    (timing_info # <<>> /\ SchedulerPrecondition) =>
        LET t == timing_info[1]
        IN /\ t.den > 0
           /\ Len(t.start_times) = num_images
           /\ Len(t.end_times) = num_images
           /\ \A i \in 1..num_images :
                  /\ 0 <= t.start_times[i]
                  /\ t.start_times[i] < t.end_times[i]
                  /\ t.end_times[i] <= video_duration * t.den
           /\ \A i \in 1..(num_images - 1) :
                  t.end_times[i] <= t.start_times[i + 1]

\* C1 witness: a schedule of at least two windows with a positive delay whose
\* naive form overran the host video.
C1_Witness ==
    /\ timing_info # <<>>
    /\ num_images >= 2
    /\ delay_between_images > 0
    /\ Overruns
    /\ timing_info[1].start_times[2] > timing_info[1].end_times[1]

\* C2: when the naive last end exceeds hostDuration, every start, every end
\* and perItemDuration are the naive ones times hostDuration / lastEnd, the
\* last end and totalDuration equal hostDuration; otherwise the naive schedule
\* is returned as it is.
C2_ProportionalRescale ==
    (timing_info # <<>> /\ SchedulerPrecondition) =>
        LET t == timing_info[1]
            naive == NaiveOfRun
            last_end == naive.end_times[num_images]
        IN IF Overruns
           THEN /\ \A i \in 1..num_images :
                       /\ t.start_times[i] * last_end =
                              naive.start_times[i] * video_duration * t.den
                       /\ t.end_times[i] * last_end =
                              naive.end_times[i] * video_duration * t.den
                /\ t.duration_per_image * last_end =
                       naive.duration_per_image * video_duration * t.den
                /\ t.end_times[num_images] = video_duration * t.den
                /\ t.total_duration = video_duration * t.den
           ELSE t = naive

\* C2 witness: 3 items, host 5, fixed duration 3, delay 0: factor 5/9, the
\* last end is 5 and the duration 15/9.
C2_Witness ==
    /\ timing_info # <<>>
    /\ num_images = 3
    /\ video_duration = 5
    /\ duration_per_image = <<3>>
    /\ delay_between_images = 0
    /\ timing_info[1].den = 9
    /\ timing_info[1].end_times[3] = 5 * 9
    /\ timing_info[1].duration_per_image = 15

\* a slide curve has just been built (it is not changed afterwards)
SlideCurve ==
    /\ ov_pc = "build"
    /\ curve # <<>>
    /\ curve[1].animation_type \in SlideStyles

\* off-screen anchor and centered anchor of a curve, each times anim_duration
\* (positions are held times anim_duration)
AnchorScaled(c) ==
    <<OffScreenAnchor(c)[1] * c.anim_duration, OffScreenAnchor(c)[2] * c.anim_duration>>
CenterScaled(c) == <<c.center_x * c.anim_duration, c.center_y * c.anim_duration>>

\* coordinate p lies strictly beyond anchor a, on the side away from center m;
\* for a coordinate that does not slide (a = m): p is the centered one
BeyondAnchor(p, a, m) ==
    IF a = m THEN p = m ELSE IF a > m THEN p > a ELSE p < a

\* C10 (as claimed): for the four slide styles the position equals the
\* off-screen anchor at every t < start and at every t > end.
C10_AnchorOutsideWindow ==
    SlideCurve =>
        LET c == curve[1]
            a == AnchorScaled(c)
        IN \A t \in CurveTimes :
               (t < c.start_time \/ t > c.end_time) =>
                   XExpr(c, t) = a[1] /\ YExpr(c, t) = a[2]

\* C10 (amended): for the four slide styles the position equals the off-screen
\* anchor at every t < start and at t = end; at every t > end the sliding
\* coordinate lies strictly beyond the anchor, on the side away from the
\* centered anchor, and the other coordinate stays the centered one.
C10_AnchorBeforeStartBeyondAfterEnd ==
    SlideCurve =>
        LET c == curve[1]
            a == AnchorScaled(c)
            m == CenterScaled(c)
        IN /\ c.anim_duration > 0
           /\ \A t \in CurveTimes :
                  /\ t < c.start_time => XExpr(c, t) = a[1] /\ YExpr(c, t) = a[2]
                  /\ t = c.end_time => XExpr(c, t) = a[1] /\ YExpr(c, t) = a[2]
                  /\ t > c.end_time =>
                         /\ BeyondAnchor(XExpr(c, t), a[1], m[1])
                         /\ BeyondAnchor(YExpr(c, t), a[2], m[2])

\* C10 witness: a slide curve of a window that starts after 0 and ends before
\* the host video does, so that sampled times lie on both sides of it.
C10_Witness ==
    /\ SlideCurve
    /\ curve[1].start_time > 0
    /\ curve[1].end_time < video_duration * 4 * timing_info[1].den
    /\ \E t \in CurveTimes : t < curve[1].start_time
    /\ \E t \in CurveTimes : t > curve[1].end_time

\* C11: for each slide style and every window with end > start the position
\* equals the off-screen anchor at t = start, the centered anchor at
\* t = start + animDuration and at t = end - animDuration and at every t
\* between them, and the off-screen anchor again at t = end.
C11_ContinuousAcrossPhases ==
    (SlideCurve /\ curve[1].end_time > curve[1].start_time) =>
        LET c == curve[1]
            a == AnchorScaled(c)
            m == CenterScaled(c)
        IN /\ c.anim_duration > 0
           /\ c.start_time + c.anim_duration <= c.exit_start_time
           /\ XExpr(c, c.start_time) = a[1] /\ YExpr(c, c.start_time) = a[2]
           /\ XExpr(c, c.end_time) = a[1] /\ YExpr(c, c.end_time) = a[2]
           /\ \A t \in (c.start_time + c.anim_duration) .. c.exit_start_time :
                  XExpr(c, t) = m[1] /\ YExpr(c, t) = m[2]

\* C11 witness: a slide curve whose window is shorter than four times the
\* configured animation time, so that the 25% cap sets animDuration, and whose
\* off-screen anchor differs from the centered one.
C11_Witness ==
    /\ SlideCurve
    /\ curve[1].end_time > curve[1].start_time
    /\ curve[1].anim_duration < animation_duration * 4 * timing_info[1].den
    /\ curve[1].start_time + curve[1].anim_duration < curve[1].exit_start_time
    /\ AnchorScaled(curve[1]) # CenterScaled(curve[1])

\* ---------------------------------------------------------------- claims: text overlay
\* the layout of a caption has been computed
LayoutDone == tx_pc \in {"return", "done"} /\ box_height > 0

\* C12: for every caption of length L >= 1 and every frame width W the font
\* size equals floor((0.85 * W) / (0.6 * L)) clamped into
\* [minFontSize, maxFontSize].
C12_FontSizeIsClampedFloor ==
    (LayoutDone /\ char_count >= 1) =>
        font_size = Max(tx_config.min_font,
                        Min((17 * tx_video_width) \div (12 * char_count),
                            tx_config.max_font))

\* C13 (as claimed): boxWidth and boxHeight are both positive and both even.
C13_BoxPositiveEven ==
    LayoutDone =>
        /\ box_width > 0 /\ box_width % 2 = 0
        /\ box_height > 0 /\ box_height % 2 = 0

\* C13 (amended): boxWidth and boxHeight are both positive integers:
\* boxWidth is floor(0.6 * L * fontSize) + 2 * padding and boxHeight is
\* floor(1.5 * fontSize) + 2 * padding, each even exactly when its floor is.
C13_BoxPositive ==
    LayoutDone =>
        LET text_width == box_width - 2 * tx_config.padding
            line_height == box_height - 2 * tx_config.padding
        IN /\ box_width > 0
           /\ box_height > 0
           /\ 5 * text_width <= 3 * char_count * font_size
           /\ 3 * char_count * font_size < 5 * (text_width + 1)
           /\ 2 * line_height <= 3 * font_size
           /\ 3 * font_size < 2 * (line_height + 1)
           /\ (box_width % 2 = 0) <=> (text_width % 2 = 0)
           /\ (box_height % 2 = 0) <=> (line_height % 2 = 0)

\* C13 witness: a caption whose box has an odd width and an odd height.
C13_Witness ==
    /\ LayoutDone
    /\ char_count >= 1
    /\ box_width % 2 = 1
    /\ box_height % 2 = 1

\* the scheduler has returned
SchedulerReturned == ov_pc \in {"build", "done"}

\* C14 (as claimed): the scheduler never returns an error result: for every
\* itemCount >= 0 it returns a schedule holding exactly itemCount windows (an
\* empty window list for itemCount = 0), perItemDuration unset or given.
C14_AlwaysASchedule ==
    SchedulerReturned =>
        /\ timing_info # <<>>
        /\ Len(timing_info[1].start_times) = num_images
        /\ Len(timing_info[1].end_times) = num_images

\* C14 (amended): the scheduler never raises; for every itemCount >= 1 it
\* returns a schedule holding exactly itemCount windows, and for itemCount = 0
\* it returns the error result None, perItemDuration unset or given.
C14_ScheduleOrNone ==
    SchedulerReturned =>
        IF num_images = 0
        THEN timing_info = <<>>
        ELSE /\ timing_info # <<>>
             /\ timing_info[1].num_images = num_images
             /\ Len(timing_info[1].start_times) = num_images
             /\ Len(timing_info[1].end_times) = num_images

\* C14 witness: the scheduler has returned None for zero items with an
\* explicit per-item duration.
C14_Witness ==
    /\ SchedulerReturned
    /\ num_images = 0
    /\ duration_per_image # <<>>
    /\ timing_info = <<>>

\* ---------------------------------------------------------------- claims: concurrent runs
\* C15: two generation runs executing concurrently share no mutable resource:
\* no run reads, overwrites or deletes a temporary file written by the other,
\* so the segment files a run has extracted still hold its own segments, the
\* concat list and the intermediate video a run is working on are its own, and
\* the output of a run holds its own segments only.
C15_RunsShareNothing ==
    \A r \in Runs :
        /\ \A k \in 1..Len(run_segment_paths[r]) :
               run_pc[r] \in {"extract", "concat"} =>
                   segment_files[run_segment_paths[r][k]][1].run = r
        /\ run_pc[r] = "concat" => concat_file # <<>> /\ concat_file[1].run = r
        /\ run_pc[r] = "audio" =>
               /\ temp_video # <<>>
               /\ \A k \in 1..Len(temp_video[1]) : temp_video[1][k].run = r
        /\ output_file[r] # <<>> =>
               \A k \in 1..Len(output_file[r][1]) : output_file[r][1][k].run = r

\* ---------------------------------------------------------------- claims: analyze_audio
\* the times of both lists
UnionTimes ==
    { beat_times[k] : k \in 1..Len(beat_times) }
        \cup { vocal_times[k] : k \in 1..Len(vocal_times) }

\* the hybrid merge has returned
HybridDone == an_pc = "done" /\ mode = "hybrid"

\* the times kept by the hybrid merge
KeptTimes == { an_result[k] : k \in 1..Len(an_result) }

\* C16: the hybrid merge result is the greedy scan of the time-sorted union of
\* the beat and vocal timestamps: the earliest point is always kept,
\* consecutive kept points differ by more than 0.1 s, every dropped point lies
\* within 0.1 s of the kept point before it, and changing the beat and vocal
\* weights never changes the result.
C16_HybridGreedyMerge ==
    HybridDone =>
        /\ KeptTimes \subseteq UnionTimes
        /\ UnionTimes # {} =>
               /\ an_result # <<>>
               /\ \A t \in UnionTimes : an_result[1] <= t
        /\ \A k \in 1..(Len(an_result) - 1) :
               an_result[k + 1] - an_result[k] > MERGE_THRESHOLD
        /\ \A t \in UnionTimes \ KeptTimes :
               \E k \in 1..Len(an_result) :
                   /\ an_result[k] < t
                   /\ t - an_result[k] <= MERGE_THRESHOLD
                   /\ k < Len(an_result) => t < an_result[k + 1]
        /\ \A w \in WeightPairs :
               AnalyzeHybrid(beat_times, vocal_times, w[1], w[2]) = an_result

\* C16 witness: a hybrid merge of beats and vocals whose times interleave,
\* that drops a point and keeps a beat and a vocal point.
C16_Witness ==
    /\ HybridDone
    /\ Len(beat_times) = 2
    /\ Len(vocal_times) = 2
    /\ vocal_times[1] < beat_times[2]
    /\ beat_times[1] < vocal_times[2]
    /\ UnionTimes \ KeptTimes # {}
    /\ \E k \in 1..Len(an_result) :
           an_result[k] \in { beat_times[j] : j \in 1..2 } \ { vocal_times[j] : j \in 1..2 }
    /\ \E k \in 1..Len(an_result) :
           an_result[k] \in { vocal_times[j] : j \in 1..2 } \ { beat_times[j] : j \in 1..2 }

\* a detection failure happened during the call
DetectionFailed ==
    \/ ~audio_exists /\ mode \in {"beats", "vocals", "hybrid"}
    \/ beat_failed
    \/ vocal_failed

InvalidOverlayInput ==
    \/ ~video_exists
    \/ ~folder_exists
    \/ num_images = 0
    \/ duration_per_image # <<>> /\ duration_per_image[1] <= 0

\* C18: for each kind of invalid overlay input (missing video, missing images
\* folder, no image, an explicit per-image duration <= 0) the processing
\* reports a failure before any schedule is computed and before the encoder is
\* invoked; the scheduler is never run with zero images or with a
\* non-positive explicit duration.
C18_InvalidInputFailsEarly ==
    /\ InvalidOverlayInput =>
           /\ scheduled = <<>>
           /\ ~encoder_invoked
           /\ ov_pc = "done" => overlay_result = None
    /\ \A k \in 1..Len(scheduled) :
           /\ scheduled[k].num_images > 0
           /\ scheduled[k].duration_per_image = <<>>
                  \/ scheduled[k].duration_per_image[1] > 0

\* the offsets segment number k (1-based) is claimed to be drawn from
OwnRange(k) == 0..Max(0, video_duration - segment_durations[k])

\* C19: in random order the sourceStart of every planned segment, the first
\* one included, is drawn from [0, sourceDuration - duration[i]]: every offset
\* in that range is a possible outcome for segment i and no offset outside it
\* is, the range being set by segment i's own duration.  Stated where the
\* outcome is still open: before the first segment is taken, every offset of
\* its range can become its sourceStart; before a step that draws for the next
\* segment, exactly the offsets of the next segment's range can become the
\* next sourceStart.
C19_RandomStartFromOwnRange ==
    (order = "random" /\ pc = "loop" /\ seg_i < Len(segment_durations)) =>
        /\ seg_i = 0 =>
               \A x \in OwnRange(1) :
                   ENABLED (ExtractStep /\ planned'[1].start = x)
        /\ seg_i + 1 < Len(segment_durations) =>
               \A x \in 0..video_duration :
                   (x \in OwnRange(seg_i + 2)) <=>
                       ENABLED (/\ ExtractStep
                                /\ LoopBack(current_video_time',
                                            segment_durations[seg_i + 2],
                                            video_duration) = x)

\* C20: in sequential order the cursor starts at 0; segment i takes
\* sourceStart = cursor if cursor + duration[i] <= sourceDuration and 0
\* otherwise; after each segment the cursor is sourceStart + duration[i].
C20_SequentialCursor ==
    (order = "sequential" /\ pc \in {"loop", "merge", "report", "done"} /\ probe_ok) =>
        /\ \A k \in 1..Len(planned) :
               LET cursor == IF k = 1 THEN 0
                             ELSE planned[k - 1].start + planned[k - 1].duration
               IN /\ planned[k].duration = segment_durations[k]
                  /\ planned[k].start =
                         IF cursor + planned[k].duration <= video_duration
                         THEN cursor ELSE 0
        /\ current_video_time =
               IF planned = <<>> THEN 0
               ELSE planned[Len(planned)].start + planned[Len(planned)].duration

\* C20 witness: a sequential plan whose second segment ends exactly at the end
\* of the source: it is taken at the cursor, and the cursor then stands at the
\* source's end.
C20_Witness ==
    /\ order = "sequential"
    /\ pc = "loop"
    /\ Len(planned) = 2
    /\ planned[2].start = planned[1].duration
    /\ planned[2].start + planned[2].duration = video_duration
    /\ current_video_time = video_duration

\* the plan of a run that probed its source has been made
Planned == pc \in {"loop", "merge", "report", "done"} /\ probe_ok

\* C21: with at least one valid candidate, when the candidates' sum S is below
\* the target T and T - S > MIN_SEGMENT_DURATION, exactly one filler of
\* duration T - S is appended as the last segment and the total equals T;
\* when S >= T or T - S <= MIN_SEGMENT_DURATION the candidate list is left
\* as it is.
C21_FillerRule ==
    (Planned /\ Candidates(filtered_points) # <<>>) =>
        LET cands == Candidates(filtered_points)
            S == SumSeq(cands)
            T == audio_duration
        IN IF S < T /\ T - S > MIN_SEGMENT_DURATION
           THEN /\ Len(segment_durations) = Len(cands) + 1
                /\ SubSeq(segment_durations, 1, Len(cands)) = cands
                /\ segment_durations[Len(segment_durations)] = T - S
                /\ SumSeq(segment_durations) = T
           ELSE segment_durations = cands

\* C21 witness: a plan of one candidate and the filler that brings the total
\* to the target.
C21_Witness ==
    /\ Planned
    /\ Len(Candidates(filtered_points)) = 1
    /\ Len(segment_durations) = 2
    /\ segment_durations[2] = audio_duration - segment_durations[1]
    /\ segment_durations[2] > MIN_SEGMENT_DURATION

\* the deltas the claim keeps: every consecutive delta d >= MIN_SEGMENT_DURATION
RECURSIVE DeltasAtLeastMin(_)
DeltasAtLeastMin(timestamps) ==
    IF Len(timestamps) < 2 THEN <<>>
    ELSE LET d == timestamps[2] - timestamps[1]
         IN (IF d >= MIN_SEGMENT_DURATION THEN <<d>> ELSE <<>>)
                \o DeltasAtLeastMin(Tail(timestamps))

\* C22: the candidate durations are the consecutive cut-point deltas that are
\* not shorter than MIN_SEGMENT_DURATION, in cut-point order: a delta d is kept
\* if and only if d >= MIN_SEGMENT_DURATION (a delta equal to it is kept).
C22_KeepNotShorterThanMin ==
    (Planned /\ DeltasAtLeastMin(filtered_points) # <<>>) =>
        LET kept == DeltasAtLeastMin(filtered_points)
        IN /\ Len(segment_durations) >= Len(kept)
           /\ SubSeq(segment_durations, 1, Len(kept)) = kept

\* an auto-mode schedule has been returned for a valid request
AutoSchedule ==
    /\ timing_info # <<>>
    /\ SchedulerPrecondition
    /\ duration_per_image = <<>>

\* the time left for the windows once the requested delays are taken out
AvailableOfRun == video_duration - delay_between_images * (num_images - 1)

\* C23: in auto mode with N >= 1 items, available = hostDuration -
\* interItemDelay * (N - 1); if available <= 0 the windows are built with
\* delay 0 and available = hostDuration (and are contiguous); the per-item
\* duration the windows are built with is max(1.0, available / N).  The
\* returned windows are the built ones, scaled by hostDuration / lastEnd when
\* the built last end exceeds hostDuration.
C23_AutoDuration ==
    AutoSchedule =>
        LET t == timing_info[1]
            N == num_images
            delay == IF AvailableOfRun <= 0 THEN 0 ELSE delay_between_images
            available == IF AvailableOfRun <= 0 THEN video_duration
                         ELSE AvailableOfRun
            \* max(1.0, available / N) and the built last end, both times N
            dur == Max(N, available)
            last_end == N * dur + (N - 1) * delay * N
            overrun == last_end > video_duration * N
        IN /\ t.delay_between_images = delay
           /\ \A i \in 1..N :
                  LET length == t.end_times[i] - t.start_times[i]
                  IN IF overrun
                     THEN length * last_end = dur * video_duration * t.den
                     ELSE length * N = dur * t.den
           /\ \A i \in 1..(N - 1) :
                  LET gap == t.start_times[i + 1] - t.end_times[i]
                  IN /\ delay = 0 => gap = 0
                     /\ IF overrun
                        THEN gap * last_end = delay * N * video_duration * t.den
                        ELSE gap = delay * t.den

\* C23 witness: an auto-mode schedule of at least two windows whose requested
\* delays leave no time, so that the delay was dropped.
C23_Witness ==
    /\ AutoSchedule
    /\ num_images >= 2
    /\ delay_between_images > 0
    /\ AvailableOfRun <= 0
    /\ timing_info[1].delay_between_images = 0
    /\ timing_info[1].end_times[1] = timing_info[1].start_times[2]

\* C24: in auto mode, whenever available = hostDuration - interItemDelay *
\* (N - 1) is positive and available / N >= 1.0, the schedule fills the host
\* video without rescaling: the last end equals hostDuration, every window
\* has length available / N, every gap equals the requested delay.
C24_AutoFillsHost ==
    (AutoSchedule /\ AvailableOfRun > 0 /\ AvailableOfRun >= num_images) =>
        LET t == timing_info[1]
            N == num_images
        IN /\ t = NaiveOfRun
           /\ t.end_times[N] = video_duration * t.den
           /\ t.start_times[1] = 0
           /\ \A i \in 1..N :
                  (t.end_times[i] - t.start_times[i]) * N = AvailableOfRun * t.den
           /\ \A i \in 1..(N - 1) :
                  t.start_times[i + 1] - t.end_times[i] =
                      delay_between_images * t.den

\* C24 witness: three items with a delay of one second on a host of five
\* seconds: windows of one second, the last one ending with the host video.
C24_Witness ==
    /\ AutoSchedule
    /\ num_images = 3
    /\ delay_between_images = 1
    /\ video_duration = 5
    /\ timing_info[1].den = 3
    /\ timing_info[1].end_times[3] = 15
    /\ timing_info[1].start_times[2] = 6

\* a curve has just been built for a window that ends after it starts
BuiltCurve ==
    /\ ov_pc = "build"
    /\ curve # <<>>
    /\ curve[1].end_time > curve[1].start_time

\* C25: for every overlay item with a window end > start and a configured
\* animation duration > 0 the animation duration used is
\* min(configuredAnimDuration, 0.25 * (end - start)); so
\* start < start + animDuration <= end - animDuration < end: enter and exit
\* take at most 25% of the window each and the hold phase at least half of it.
C25_AnimationCap ==
    (BuiltCurve /\ animation_duration > 0) =>
        LET c == curve[1]
            window == c.end_time - c.start_time
            configured == animation_duration * 4 * timing_info[1].den
        IN /\ \/ c.anim_duration = configured /\ 4 * configured <= window
              \/ 4 * c.anim_duration = window /\ window <= 4 * configured
           /\ c.exit_start_time = c.end_time - c.anim_duration
           /\ c.start_time < c.start_time + c.anim_duration
           /\ c.start_time + c.anim_duration <= c.exit_start_time
           /\ c.exit_start_time < c.end_time
           /\ 4 * c.anim_duration <= window
           /\ 2 * (c.exit_start_time - (c.start_time + c.anim_duration)) >= window

\* C25 witness: a fade item whose window is shorter than four times the
\* configured animation time: the animation takes a quarter of the window.
C25_Witness ==
    /\ BuiltCurve
    /\ curve[1].animation_type = "fade"
    /\ 4 * curve[1].anim_duration = curve[1].end_time - curve[1].start_time
    /\ curve[1].anim_duration < animation_duration * 4 * timing_info[1].den


\* C27: with maxW = floor(0.85 * frameWidth) and maxH = floor(0.85 *
\* frameHeight), an image that fits within both keeps its original size;
\* otherwise it is fitted into maxW x maxH with its aspect ratio preserved and
\* each dimension rounded down to an even number; in every case the result
\* is at most maxW wide and maxH high.
C27_ImageFit ==
    (ov_pc = "build" /\ curve # <<>>) =>
        LET c == curve[1]
            maxW == (85 * c.video_width) \div 100
            maxH == (85 * c.video_height) \div 100
            w == c.img_width
            h == c.img_height
        IN /\ w <= maxW
           /\ h <= maxH
           /\ c.probed # <<>> =>
                  LET iw == c.probed[1]
                      ih == c.probed[2]
                  IN IF iw <= maxW /\ ih <= maxH
                     THEN w = iw /\ h = ih
                     ELSE /\ w % 2 = 0
                          /\ h % 2 = 0
                          /\ w > 0
                          /\ h > 0
                          \* one side is the maximum, the other follows the
                          \* aspect ratio, both rounded down to even
                          /\ \/ /\ w = maxW - (maxW % 2)
                                /\ h * iw <= maxW * ih
                                /\ maxW * ih < (h + 2) * iw
                             \/ /\ h = maxH - (maxH % 2)
                                /\ w * ih <= maxH * iw
                                /\ maxH * iw < (w + 2) * ih

\* C27 witness: a tall image of 1001 x 3001 on a 640 x 360 frame is fitted to
\* the maximum height 306, with width 102.
C27_Witness ==
    /\ ov_pc = "build"
    /\ curve # <<>>
    /\ curve[1].probed = <<1001, 3001>>
    /\ curve[1].video_width = 640
    /\ curve[1].img_height = 306
    /\ curve[1].img_width = 102


\* the sourceStart of segment k (1-based) of a sequential run in which no
\* extraction fails: the cursor after segment k - 1, or 0 on a loop back
RECURSIVE StartIfNoneFailed(_)
StartIfNoneFailed(k) ==
    LET cursor == IF k = 1 THEN 0
                  ELSE StartIfNoneFailed(k - 1) + segment_durations[k - 1]
    IN IF cursor + segment_durations[k] > video_duration THEN 0 ELSE cursor

\* C26: segment extraction is best-effort: whichever extractions fail, every
\* remaining segment is still attempted, the segments returned are exactly the
\* successfully extracted ones in planning order, and in sequential order
\* every segment has the sourceStart and duration it has when none fails.
C26_BestEffortExtraction ==
    /\ [](Planned =>
            /\ Len(planned) = seg_i
            /\ pc # "loop" => seg_i = Len(segment_durations)
            /\ \A j \in DOMAIN segments : segments[j] \in 0..(seg_i - 1)
            /\ \A j \in 1..(Len(segments) - 1) : segments[j] < segments[j + 1]
            /\ order = "sequential" =>
                   \A k \in DOMAIN planned :
                       /\ planned[k].start = StartIfNoneFailed(k)
                       /\ planned[k].duration = segment_durations[k])
    /\ [][(pc = "loop" /\ seg_i' = seg_i + 1) =>
             /\ segments' \in {segments, Append(segments, seg_i)}
             /\ pc' = "loop"]_vars

\* C26 witness: of two planned segments the first failed: the second alone is
\* returned, and it was cut where it is cut when none fails.
C26_Witness ==
    /\ Planned
    /\ pc = "merge"
    /\ order = "sequential"
    /\ Len(segment_durations) = 2
    /\ segments = <<1>>
    /\ planned[2].start = segment_durations[1]
    /\ planned[2].start > 0


\* C28: for every caption accepted by input validation (1 to 100 characters)
\* and every frame width, the estimated text width len(text) * fontSize * 0.6
\* (boxWidth minus the two paddings) does not exceed availableWidth =
\* 0.85 * frameWidth.
C28_CaptionFitsFrame ==
    (LayoutDone /\ char_count >= 1) =>
        (box_width - 2 * tx_config.padding) * 100 <= 85 * tx_video_width


\* C29: every user entry point to image overlay (the interactive workflow and
\* the overlay-images command) calls the scheduler with an inter-item delay
\* >= 0 whatever delay the user supplies, so no schedule produced for a user
\* has overlapping windows (end[i] > start[i+1]).
C29_UserDelayNeverNegative ==
    (ov_entry \in {"cli", "interactive"} /\ scheduled # <<>>) =>
        /\ delay_between_images >= 0
        /\ timing_info # <<>> =>
               \A i \in 1..(timing_info[1].num_images - 1) :
                   timing_info[1].end_times[i] <= timing_info[1].start_times[i + 1]


\* C30: for each of the four slide styles the off-screen anchor places the
\* item's bounding box entirely outside the visible frame on the side the
\* style names (slide_bottom below the bottom edge, slide_top above the top
\* edge, slide_left left of the left edge, slide_right right of the right
\* edge) while the other coordinate is the centered anchor's; for the fade
\* style the position is the centered anchor at every time t.
C30_AnchorOutsideFrame ==
    (ov_pc = "build" /\ curve # <<>>) =>
        LET c == curve[1]
            x == OffScreenAnchor(c)[1]
            y == OffScreenAnchor(c)[2]
        IN /\ c.img_width > 0
           /\ c.img_height > 0
           /\ c.animation_type = "slide_bottom" =>
                  y > c.video_height /\ x = c.center_x
           /\ c.animation_type = "slide_top" =>
                  y + c.img_height < 0 /\ x = c.center_x
           /\ c.animation_type = "slide_left" =>
                  x + c.img_width < 0 /\ y = c.center_y
           /\ c.animation_type = "slide_right" =>
                  x > c.video_width /\ y = c.center_y
           /\ c.animation_type = "fade" =>
                  \A t \in CurveTimes :
                      /\ XExpr(c, t) = c.center_x * c.anim_duration
                      /\ YExpr(c, t) = c.center_y * c.anim_duration

\* C30 witness: an item 918 pixels wide that slides in from the left has its
\* anchor 1018 pixels left of the left edge, at the centered height.
C30_Witness ==
    /\ ov_pc = "build"
    /\ curve # <<>>
    /\ curve[1].animation_type = "slide_left"
    /\ curve[1].img_width = 918
    /\ OffScreenAnchor(curve[1]) = <<0 - 1018, curve[1].center_y>>
    /\ curve[1].center_y > 0

====
